---------------------------- MODULE Spec2Model ----------------------------
(***************************************************************************)
(* Undo/redo history of the DesignPatterns examples.                       *)
(*                                                                         *)
(*   memento/ex001.py, memento/ex002.py : Originator, Snapshot, Caretaker  *)
(*       (snapshot strategy; the two files hold the same Caretaker)        *)
(*   command/ex003.py : Command, CommandHistory, Editor, Application       *)
(*       (delta strategy)                                                  *)
(*                                                                         *)
(* and the smaller examples beside them:                                   *)
(*                                                                         *)
(*   state/ex003.py     : Ticket and its TicketState classes               *)
(*   observer/ex001.py  : Inventory and its StoreManager observers         *)
(*   observer/ex003.py  : ConcreteSubject and its observers                *)
(*   singleton/ex006.py : ThreadingSingleton                               *)
(*                                                                         *)
(* Each example is a script of its own.  The variable program says which   *)
(* one runs; the other example's objects are never constructed and keep    *)
(* their initial values.  Python strings are sequences of one-character    *)
(* strings, Python lists are sequences, objects are records.               *)
(***************************************************************************)
EXTENDS Naturals, Sequences, FiniteSets

VARIABLES
    program,     \* which example runs: "memento", "command", "ticket",
                 \* "inventory", "subject" or "singleton"
    state,       \* Originator._state
    history,     \* Caretaker._history, bottom first
    restored,    \* Originator.restored, bottom first
    created,     \* number of Snapshot objects constructed so far
    text,        \* Editor.text of the active editor
    clipboard,   \* Application.clipboard
    commands,    \* the Command objects constructed so far, by creation order
    app_history, \* CommandHistory.history: indexes into commands, bottom first
    calls,       \* the client's calls so far, each with its outcome
    undoing,     \* the Caretaker.undo in progress in a thread: where it is and
                 \* its local variable memento
    ticket,      \* Ticket.state: the name of the state object's class
    inventory,   \* Inventory: _observers and _products
    subjects,    \* ConcreteSubject: the class's and the instances' attributes
    singleton    \* ThreadingSingleton: _instance, _lock and the threads in __new__

vars == <<program, state, history, restored, created,
          text, clipboard, commands, app_history, calls, undoing,
          ticket, inventory, subjects, singleton>>

mementoVars == <<state, history, restored, created>>
commandVars == <<text, clipboard, commands, app_history>>
otherVars == <<ticket, inventory, subjects, singleton>>

(***************************************************************************)
(* Bounds.                                                                 *)
(***************************************************************************)
\* the client makes at most this many calls
MaxCalls == 6

\* the client of __main__ makes at most this many mutations (the script: 6)
MaxMutations == 4

\* the client of the Inventory makes at most this many calls
MaxInventoryCalls == 5

\* the client of the ConcreteSubject instances makes at most this many calls
MaxSubjectCalls == 4

\* the threads that call ThreadingSingleton(), and the calls they make in all
MaxThreads == 3

MaxSingletonCalls == 4

\* the client of the LIFO run of the command example runs at most this many
\* commands
MaxCommands == 4

(***************************************************************************)
(* Values.                                                                 *)
(***************************************************************************)
\* Python's None, kept apart from every string (strings hold one-character items)
None == <<"None">>

\* what _generate_random_string(5) may return: five distinct letters
RandomStrings == { <<"a", "b", "c", "d", "e">>, <<"V", "w", "X", "y", "Z">> }

\* what the client may pass to Originator(state)
InitialStates == { None, <<"X">> }

Last(s) == s[Len(s)]
Front(s) == SubSeq(s, 1, Len(s) - 1)

(***************************************************************************)
(* memento: Snapshot, Originator.                                          *)
(***************************************************************************)
\* Python's s[0:k]
Prefix(s, k) == SubSeq(s, 1, IF Len(s) < k THEN Len(s) ELSE k)

\* Python's str(n) of a natural number
RECURSIVE str(_)
str(n) ==
    LET digit == <<"0", "1", "2", "3", "4", "5", "6", "7", "8", "9">>[(n % 10) + 1]
    IN  IF n < 10 THEN <<digit>> ELSE Append(str(n \div 10), digit)

\* str(datetime.now()) at the construction of the n-th Snapshot: the clock is
\* read once per Snapshot, and the reading is named by its number
now(n) == str(n)

\* Snapshot(state): state = state, date = str(datetime.now())[:19]; id stands
\* for the object's identity: the n-th Snapshot built
Snapshot(st, n) == [state |-> st, date |-> Prefix(now(n), 19), id |-> n]

\* Snapshot.name: f"{self.date} / ({self.state[0:9]}...)"
name(m) ==
    m.date \o <<" ", "/", " ", "(">> \o Prefix(m.state, 9) \o <<".", ".", ".", ")">>

save_unguarded(st, n) == [raised |-> FALSE, value |-> Snapshot(st, n)]

\* Originator.save: raises AttributeError when _state is None
save(st, n) ==
    IF st = None
    THEN [raised |-> TRUE, value |-> Snapshot(None, 0)]
    ELSE [raised |-> FALSE, value |-> Snapshot(st, n)]

restore_swaps(st, rs, memento) ==
    [state |-> memento.state, restored |-> Append(rs, [memento EXCEPT !.state = st])]

restore_forgets(st, rs, memento) == [state |-> memento.state, restored |-> rs]

\* Originator.restore: _state = memento.state; restored.append(memento)
restore(st, rs, memento) ==
    [state |-> memento.state, restored |-> Append(rs, memento)]

\* Originator.restore when one of its statements raises: at the read of
\* memento.state (nothing assigned yet) or at the print (after _state was
\* assigned); restored.append is not reached
RestoreFaults == {"memento.state", "print"}

restore_raises(st, rs, memento, at) ==
    [state |-> IF at = "print" THEN memento.state ELSE st, restored |-> rs]

\* the statements of Originator.restore one by one: _state = memento.state
restore_assign(st, memento) == memento.state

restore_append_forgets(rs, memento) == rs

\* restored.append(memento)
restore_append(rs, memento) == Append(rs, memento)

\* Originator.do_something: _state = a fresh random string
do_something(st, s) == s

(***************************************************************************)
(* Python list.pop(): IndexError on an empty list.                         *)
(***************************************************************************)
list_pop(l) ==
    IF Len(l) = 0
    THEN [raised |-> TRUE, rest |-> l]
    ELSE [raised |-> FALSE, rest |-> Front(l)]

(***************************************************************************)
(* memento: Caretaker.  Each operator maps the objects before the call to  *)
(* the objects after it and says whether the call raised to its caller.    *)
(***************************************************************************)
Memento(st, h, rs, n, r) ==
    [state |-> st, history |-> h, restored |-> rs, created |-> n, raised |-> r]

\* Caretaker.backup: m = originator.save(); history.append(m)
backup(st, h, rs, n) ==
    LET m == save(st, n + 1)
    IN  IF m.raised
        THEN Memento(st, h, rs, n, TRUE)
        ELSE Memento(st, Append(h, m.value), rs, n + 1, FALSE)

undo_peeks(st, h, rs, n) ==
    IF Len(h) = 0
    THEN Memento(st, h, rs, n, FALSE)
    ELSE LET o == restore(st, rs, Last(h))
         IN  Memento(o.state, h, o.restored, n, FALSE)

undo_fifo(st, h, rs, n) ==
    IF Len(h) = 0
    THEN Memento(st, h, rs, n, FALSE)
    ELSE LET o == restore(st, rs, Head(h))
         IN  Memento(o.state, Tail(h), o.restored, n, FALSE)

\* Caretaker.undo: nothing on an empty history; else pop and restore
undo(st, h, rs, n) ==
    IF Len(h) = 0
    THEN Memento(st, h, rs, n, FALSE)
    ELSE LET memento == Last(h)
             o == restore(st, rs, memento)
         IN  Memento(o.state, list_pop(h).rest, o.restored, n, FALSE)

\* no Caretaker.undo is in progress
Idle == [pc |-> "idle", memento |-> Snapshot(None, 0)]

\* the first statement of Caretaker.undo's try block: memento = history.pop()
undo_pop(h) == [pc |-> "popped", memento |-> Last(h)]

\* Caretaker.undo when Originator.restore raises: the memento was popped
\* inside the try, and "except Exception" prints 'Cannot undo' and returns
undo_restore_raises(st, h, rs, n, at) ==
    IF Len(h) = 0
    THEN Memento(st, h, rs, n, FALSE)
    ELSE LET memento == Last(h)
             o == restore_raises(st, rs, memento, at)
         IN  Memento(o.state, list_pop(h).rest, o.restored, n, FALSE)

redo_reapplies(st, h, rs, n) ==
    IF Len(rs) = 0
    THEN Memento(st, h, rs, n, FALSE)
    ELSE Memento(Last(rs).state, Append(h, Last(rs)), Front(rs), n, FALSE)

redo_keeps(st, h, rs, n) ==
    IF Len(rs) = 0
    THEN Memento(st, h, rs, n, FALSE)
    ELSE Memento(st, Append(h, Last(rs)), rs, n, FALSE)

redo_uncaught(st, h, rs, n) ==
    LET p == list_pop(rs)
    IN  IF p.raised
        THEN Memento(st, h, rs, n, TRUE)
        ELSE Memento(st, Append(h, Last(rs)), p.rest, n, FALSE)

\* Caretaker.redo: restored.pop() moves back onto the history; an IndexError
\* of the pop is caught by "except Exception"
redo(st, h, rs, n) ==
    LET p == list_pop(rs)
    IN  IF p.raised
        THEN Memento(st, h, rs, n, FALSE)
        ELSE Memento(st, Append(h, Last(rs)), p.rest, n, FALSE)

\* what Caretaker.show_history prints: the name of every memento of the
\* history, bottom first
listing(h) == [i \in 1..Len(h) |-> name(h[i])]

show_history_pops(st, h, rs, n) ==
    Memento(st, list_pop(h).rest, rs, n, FALSE)

\* Caretaker.show_history: prints the listing and assigns nothing
show_history(st, h, rs, n) == Memento(st, h, rs, n, FALSE)

(***************************************************************************)
(* command: Editor.                                                        *)
(***************************************************************************)
\* the literal "selected text" that Editor.get_selection returns
SelectedText ==
    <<"s", "e", "l", "e", "c", "t", "e", "d", " ", "t", "e", "x", "t">>

get_selection == SelectedText

\* texts the client may put into Editor.text
TypedTexts == { <<"x">>, <<"a">> \o SelectedText \o <<"b">> }

\* Python's str.replace(old, new) for a non-empty old: every occurrence,
\* left to right, without overlap
RECURSIVE str_replace(_, _, _)
str_replace(t, old, new) ==
    IF Len(t) < Len(old) THEN t
    ELSE IF SubSeq(t, 1, Len(old)) = old
         THEN new \o str_replace(SubSeq(t, Len(old) + 1, Len(t)), old, new)
         ELSE <<Head(t)>> \o str_replace(Tail(t), old, new)

\* Editor.delete_selection: text = text.replace("selected text", "")
delete_selection(t) == str_replace(t, SelectedText, <<>>)

\* Editor.replace_selection: text += the given text
replace_selection(t, clip) == t \o clip

(***************************************************************************)
(* command: Command objects, CommandHistory, Application.  Each operator   *)
(* maps the objects before the call to the objects after it, with what the *)
(* call returned and whether it raised.                                    *)
(***************************************************************************)
Kinds == {"Copy", "Cut", "Paste", "Undo"}

\* Command.__init__: backup = None
Command(kind) == [kind |-> kind, backup |-> None]

App(t, clip, cs, h, ret, r) ==
    [text |-> t, clipboard |-> clip, commands |-> cs, history |-> h,
     ret |-> ret, raised |-> r]

\* Application.__init__ and CommandHistory.__init__ build one list of commands,
\* CommandHistory.history; these are the lists of commands besides it
other_command_lists == {}

save_backup_once(cs, c, t) ==
    IF cs[c].backup = None THEN [cs EXCEPT ![c].backup = t] ELSE cs

\* Command.save_backup: backup = editor.text
save_backup(cs, c, t) == [cs EXCEPT ![c].backup = t]

\* CommandHistory.push
push(h, c) == Append(h, c)

pop_first(h) ==
    IF Len(h) > 0
    THEN [value |-> Head(h), rest |-> Tail(h)]
    ELSE [value |-> 0, rest |-> h]

\* CommandHistory.pop: the last command, or None (here 0) on an empty history
pop(h) ==
    IF Len(h) > 0
    THEN [value |-> Last(h), rest |-> Front(h)]
    ELSE [value |-> 0, rest |-> h]

\* Command.undo of the command object c: editor.text = backup
command_undo(t, clip, cs, h, c) == App(cs[c].backup, clip, cs, h, FALSE, FALSE)

app_undo_clears_clipboard(t, clip, cs, h) ==
    IF Len(h) > 0
    THEN App(cs[Last(h)].backup, <<>>, cs, Front(h), FALSE, FALSE)
    ELSE App(t, clip, cs, h, FALSE, FALSE)

app_undo_keeps_text(t, clip, cs, h) == App(t, clip, cs, pop(h).rest, FALSE, FALSE)

\* Application.undo: command = history.pop(); if it is not None, command.undo(),
\* which is editor.text = command.backup
app_undo(t, clip, cs, h) ==
    LET p == pop(h)
    IN  IF p.value # 0
        THEN App(cs[p.value].backup, clip, cs, p.rest, FALSE, FALSE)
        ELSE App(t, clip, cs, p.rest, FALSE, FALSE)

execute_backup_after(t, clip, cs, h, c) ==
    CASE cs[c].kind = "Copy" ->
            App(t, get_selection, cs, h, FALSE, FALSE)
      [] cs[c].kind = "Cut" ->
            App(delete_selection(t), get_selection,
                save_backup(cs, c, delete_selection(t)), h, TRUE, FALSE)
      [] cs[c].kind = "Paste" ->
            App(replace_selection(t, clip), clip,
                save_backup(cs, c, replace_selection(t, clip)), h, TRUE, FALSE)
      [] cs[c].kind = "Undo" ->
            [app_undo(t, clip, cs, h) EXCEPT !.ret = FALSE]

\* <Kind>Command.execute of the command object c.  With Editor.text None
\* (left by a Command.undo that wrote a None backup), delete_selection raises
\* AttributeError and replace_selection TypeError, after save_backup ran
execute(t, clip, cs, h, c) ==
    CASE cs[c].kind = "Copy" ->
            App(t, get_selection, cs, h, FALSE, FALSE)
      [] cs[c].kind = "Cut" ->
            IF t = None
            THEN App(t, get_selection, save_backup(cs, c, t), h, FALSE, TRUE)
            ELSE App(delete_selection(t), get_selection, save_backup(cs, c, t), h,
                     TRUE, FALSE)
      [] cs[c].kind = "Paste" ->
            IF t = None
            THEN App(t, clip, save_backup(cs, c, t), h, FALSE, TRUE)
            ELSE App(replace_selection(t, clip), clip, save_backup(cs, c, t), h,
                     TRUE, FALSE)
      [] cs[c].kind = "Undo" ->
            [app_undo(t, clip, cs, h) EXCEPT !.ret = FALSE]

execute_command_always_pushes(t, clip, cs, h, c) ==
    LET a == execute(t, clip, cs, h, c)
    IN  [a EXCEPT !.history = push(a.history, c)]

\* Application.execute_command: if command.execute(): history.push(command)
execute_command(t, clip, cs, h, c) ==
    LET a == execute(t, clip, cs, h, c)
    IN  IF a.ret THEN [a EXCEPT !.history = push(a.history, c)] ELSE a

(***************************************************************************)
(* The client's calls.  A call records the operation, whether it raised to *)
(* the client, the subject's state (memento) or text (command) before and  *)
(* after it, the id of the snapshot it pushed or moved (memento; 0 for     *)
(* none), the command object it ran (command; 0 for none) and what         *)
(* execute() returned.                                                     *)
(***************************************************************************)
Call(op, r, pre, post, snap, c, ret) ==
    [op |-> op, raised |-> r, pre |-> pre, post |-> post, snap |-> snap,
     cmd |-> c, ret |-> ret]

\* the snapshot a Caretaker call put on top of one of the two lists
Moved(h, rs, m) ==
    IF Len(m.history) > Len(h) THEN Last(m.history).id
    ELSE IF Len(m.restored) > Len(rs) THEN Last(m.restored).id
    ELSE 0

MementoCall(op, m) ==
    /\ program = "memento"
    /\ state' = m.state
    /\ history' = m.history
    /\ restored' = m.restored
    /\ created' = m.created
    /\ calls' = Append(calls, Call(op, m.raised, state, m.state,
                                   Moved(history, restored, m), 0, FALSE))
    /\ UNCHANGED <<program, commandVars, undoing, otherVars>>

BackupCall == MementoCall("backup", backup(state, history, restored, created))

DoSomethingCall ==
    \E s \in RandomStrings :
        MementoCall("do_something",
                    Memento(do_something(state, s), history, restored, created, FALSE))

UndoCall == MementoCall("undo", undo(state, history, restored, created))

RedoCall == MementoCall("redo", redo(state, history, restored, created))

\* Caretaker.undo on a non-empty history, with Originator.restore raising
UndoRestoreRaisesCall ==
    /\ Len(history) > 0
    /\ \E at \in RestoreFaults :
          MementoCall("undo, restore raises",
                      undo_restore_raises(state, history, restored, created, at))

\* Caretaker.undo in a thread of its own, one statement at a time: the pop
\* (after the emptiness test), then Originator.restore's assignment, then its
\* append.  Each step is logged as a call of its own.
StepCall(op, post, snap) == Call(op, FALSE, state, post, snap, 0, FALSE)

UndoPopCall ==
    /\ program = "memento"
    /\ undoing = Idle
    /\ Len(history) > 0
    /\ undoing' = undo_pop(history)
    /\ history' = list_pop(history).rest
    /\ calls' = Append(calls, StepCall("undo: pop", state, Last(history).id))
    /\ UNCHANGED <<program, state, restored, created, commandVars, otherVars>>

UndoAssignCall ==
    /\ undoing.pc = "popped"
    /\ state' = restore_assign(state, undoing.memento)
    /\ undoing' = [undoing EXCEPT !.pc = "assigned"]
    /\ calls' = Append(calls, StepCall("undo: assign", undoing.memento.state,
                                       undoing.memento.id))
    /\ UNCHANGED <<program, history, restored, created, commandVars, otherVars>>

UndoAppendCall ==
    /\ undoing.pc = "assigned"
    /\ restored' = restore_append(restored, undoing.memento)
    /\ undoing' = Idle
    /\ calls' = Append(calls, StepCall("undo: append", state, undoing.memento.id))
    /\ UNCHANGED <<program, state, history, created, commandVars, otherVars>>

ShowHistoryCall ==
    MementoCall("show_history", show_history(state, history, restored, created))

CommandCall(op, c, a) ==
    /\ program = "command"
    /\ text' = a.text
    /\ clipboard' = a.clipboard
    /\ commands' = a.commands
    /\ app_history' = a.history
    /\ calls' = Append(calls, Call(op, a.raised, text, a.text, 0, c, a.ret))
    /\ UNCHANGED <<program, mementoVars, undoing, otherVars>>

\* a shortcut of create_ui: a new command object, run by execute_command
ExecuteNewCall ==
    \E kind \in Kinds :
        LET cs == Append(commands, Command(kind))
            c == Len(cs)
        IN  CommandCall("execute_command", c,
                        execute_command(text, clipboard, cs, app_history, c))

\* execute_command on a command object that ran before
ExecuteAgainCall ==
    \E c \in 1..Len(commands) :
        CommandCall("execute_command", c,
                    execute_command(text, clipboard, commands, app_history, c))

\* Application.undo called directly
AppUndoCall == CommandCall("undo", 0, app_undo(text, clipboard, commands, app_history))

\* app.active_editor.text = t, assigned by the client
TypeTextCall ==
    \E t \in TypedTexts :
        CommandCall("Editor.text", 0,
                    App(t, clipboard, commands, app_history, FALSE, FALSE))

\* <Kind>Command(app, editor): a command object built and not run
ConstructCall ==
    \E kind \in Kinds :
        LET cs == Append(commands, Command(kind))
        IN  CommandCall("Command", Len(cs),
                        App(text, clipboard, cs, app_history, FALSE, FALSE))

\* command.undo() called by the client on a command object
CommandUndoCall ==
    \E c \in 1..Len(commands) :
        CommandCall("Command.undo", c,
                    command_undo(text, clipboard, commands, app_history, c))

(***************************************************************************)
(* state/ex003.py: Ticket.                                                 *)
(***************************************************************************)
\* <State>.assign(ticket): what the method returns; "pass" returns None
assign(st) == IF st = "NewState" THEN "AssignedState" ELSE "None"

\* <State>.resolve(ticket)
resolve(st) == IF st = "AssignedState" THEN "ResolvedState" ELSE "None"

\* <State>.close(ticket)
close(st) == IF st = "ResolvedState" THEN "ClosedState" ELSE "None"

\* Ticket.assign / resolve / close: self.state.<operation>(self); the value
\* the state object returns is not assigned to anything
Ticket_assign(st) == LET returned == assign(st) IN st

Ticket_resolve(st) == LET returned == resolve(st) IN st

Ticket_close(st) == LET returned == close(st) IN st

TicketCall(op, st) ==
    /\ program = "ticket"
    /\ ticket' = st
    /\ calls' = Append(calls, Call(op, FALSE, ticket, st, 0, 0, FALSE))
    /\ UNCHANGED <<program, mementoVars, commandVars, undoing,
                   inventory, subjects, singleton>>

TicketAssignCall == TicketCall("assign", Ticket_assign(ticket))

TicketResolveCall == TicketCall("resolve", Ticket_resolve(ticket))

TicketCloseCall == TicketCall("close", Ticket_close(ticket))

(***************************************************************************)
(* observer/ex001.py: Inventory.                                           *)
(***************************************************************************)
\* the StoreManager objects, by name
Managers == {"Alice", "Bob"}

\* Inventory._products as the client sets it up: one product and its level
StockedProducts == [p \in {"Apples"} |-> 10]

\* the update_stock calls of the client: a lower, an equal and a higher level
\* of the stocked product, and a product the inventory does not hold
StockUpdates ==
    { <<"Apples", 5>>, <<"Apples", 10>>, <<"Apples", 60>>, <<"Pears", 5>> }

\* Python's list.remove(x): the first x is taken out; ValueError without one
RECURSIVE list_remove(_, _)
list_remove(l, x) ==
    IF l = <<>> THEN [raised |-> TRUE, rest |-> l]
    ELSE IF Head(l) = x THEN [raised |-> FALSE, rest |-> Tail(l)]
    ELSE LET r == list_remove(Tail(l), x)
         IN  [raised |-> r.raised, rest |-> <<Head(l)>> \o r.rest]

Inventory(obs, prods, upd, r) ==
    [observers |-> obs, products |-> prods, updates |-> upd, raised |-> r]

\* Inventory.attach: _observers.append(observer)
attach(obs, prods, o) == Inventory(Append(obs, o), prods, <<>>, FALSE)

\* Inventory.detach: _observers.remove(observer)
detach(obs, prods, o) ==
    LET r == list_remove(obs, o)
    IN  Inventory(r.rest, prods, <<>>, r.raised)

\* Inventory.notify: observer.update(product_name, new_stock) for every entry
\* of _observers, in list order; the value is the list of the update calls
notify(obs, product_name, new_stock) ==
    [i \in 1..Len(obs) |->
        [observer |-> obs[i], product_name |-> product_name, new_stock |-> new_stock]]

update_stock_not_strict(obs, prods, product_name, new_stock) ==
    IF product_name \notin DOMAIN prods
    THEN Inventory(obs, prods, <<>>, TRUE)
    ELSE Inventory(obs, [prods EXCEPT ![product_name] = new_stock],
                   IF new_stock <= prods[product_name]
                   THEN notify(obs, product_name, new_stock) ELSE <<>>,
                   FALSE)

\* Inventory.update_stock: KeyError for a product the dict does not hold; else
\* the level is stored and notify is called when new_stock < before
update_stock(obs, prods, product_name, new_stock) ==
    IF product_name \notin DOMAIN prods
    THEN Inventory(obs, prods, <<>>, TRUE)
    ELSE LET before == prods[product_name]
         IN  Inventory(obs, [prods EXCEPT ![product_name] = new_stock],
                       IF new_stock < before
                       THEN notify(obs, product_name, new_stock) ELSE <<>>,
                       FALSE)

\* a call on the Inventory; the log keeps the observer or product it was about
\* (cmd), the level before and after (pre, post; 0 when there is none) and the
\* update calls the observers received (ret)
InventoryCall(op, arg, pre, post, i) ==
    /\ program = "inventory"
    /\ inventory' = [observers |-> i.observers, products |-> i.products]
    /\ calls' = Append(calls, Call(op, i.raised, pre, post, 0, arg, i.updates))
    /\ UNCHANGED <<program, mementoVars, commandVars, undoing,
                   ticket, subjects, singleton>>

AttachCall ==
    \E o \in Managers :
        InventoryCall("attach", o, 0, 0,
                      attach(inventory.observers, inventory.products, o))

DetachCall ==
    \E o \in Managers :
        InventoryCall("detach", o, 0, 0,
                      detach(inventory.observers, inventory.products, o))

UpdateStockCall ==
    \E u \in StockUpdates :
        LET i == update_stock(inventory.observers, inventory.products, u[1], u[2])
        IN  InventoryCall("update_stock", u[1],
                          IF u[1] \in DOMAIN inventory.products
                          THEN inventory.products[u[1]] ELSE 0,
                          IF u[1] \in DOMAIN i.products THEN i.products[u[1]] ELSE 0,
                          i)

(***************************************************************************)
(* observer/ex003.py: ConcreteSubject.  _observers is assigned once, in    *)
(* the class body, and no method assigns self._observers: every instance   *)
(* reads the one list of the class.  _state is None in the class body and  *)
(* becomes an attribute of the instance in some_business_logic.            *)
(***************************************************************************)
\* the ConcreteSubject instances of the client
Subjects == {"s1", "s2"}

\* the observers of the client: a ConcreteObserverA and a ConcreteObserverB
Observers == {"observer_a", "observer_b"}

\* values of randrange(0, 10): observer A alone reacts to 1, B alone to 5
RandomStates == {1, 5}

\* a subject's _state: the empty sequence for None, <<n>> for the integer n
NoState == <<>>

\* ConcreteObserverA.update / ConcreteObserverB.update: TypeError when the
\* subject's _state is None (None < 3, None >= 2), else whether it reacted
update(o, st) ==
    IF st = NoState THEN [raised |-> TRUE, reacted |-> FALSE]
    ELSE [raised |-> FALSE,
          reacted |-> IF o = "observer_a" THEN st[1] < 3
                      ELSE (st[1] = 0 \/ st[1] >= 2)]

Subject(obs, sts, upd, r) ==
    [observers |-> obs, state |-> sts, updates |-> upd, raised |-> r]

\* ConcreteSubject.attach: self._observers.append(observer)
subject_attach(obs, sts, sub, o) == Subject(Append(obs, o), sts, <<>>, FALSE)

\* ConcreteSubject.detach: self._observers.remove(observer)
subject_detach(obs, sts, sub, o) ==
    LET r == list_remove(obs, o)
    IN  Subject(r.rest, sts, <<>>, r.raised)

\* ConcreteSubject.notify: observer.update(self) for every entry of
\* self._observers; the first update that raises ends the loop
subject_notify(obs, sts, sub) ==
    LET n == IF sts[sub] = NoState /\ Len(obs) > 0 THEN 1 ELSE Len(obs)
    IN  Subject(obs, sts,
                [i \in 1..n |->
                    [observer |-> obs[i], subject |-> sub,
                     reacted |-> update(obs[i], sts[sub]).reacted]],
                sts[sub] = NoState /\ Len(obs) > 0)

\* ConcreteSubject.some_business_logic: self._state = randrange(0, 10), notify
some_business_logic(obs, sts, sub, random) ==
    subject_notify(obs, [sts EXCEPT ![sub] = <<random>>], sub)

\* a call on a ConcreteSubject; the log keeps the subject (cmd), the observer
\* passed (snap; 0 for none), the subject's _state before and after and the
\* update calls the observers received (ret)
SubjectCall(op, sub, o, i) ==
    /\ program = "subject"
    /\ subjects' = [observers |-> i.observers, state |-> i.state]
    /\ calls' = Append(calls, Call(op, i.raised, subjects.state[sub], i.state[sub],
                                   o, sub, i.updates))
    /\ UNCHANGED <<program, mementoVars, commandVars, undoing,
                   ticket, inventory, singleton>>

SubjectAttachCall ==
    \E sub \in Subjects : \E o \in Observers :
        SubjectCall("attach", sub, o,
                    subject_attach(subjects.observers, subjects.state, sub, o))

SubjectDetachCall ==
    \E sub \in Subjects : \E o \in Observers :
        SubjectCall("detach", sub, o,
                    subject_detach(subjects.observers, subjects.state, sub, o))

SubjectNotifyCall ==
    \E sub \in Subjects :
        SubjectCall("notify", sub, 0,
                    subject_notify(subjects.observers, subjects.state, sub))

SomeBusinessLogicCall ==
    \E sub \in Subjects : \E random \in RandomStates :
        SubjectCall("some_business_logic", sub, 0,
                    some_business_logic(subjects.observers, subjects.state, sub,
                                        random))

(***************************************************************************)
(* singleton/ex006.py: ThreadingSingleton.__new__, one statement at a      *)
(* time.  _instance is 0 for None, else the number of the object; _lock is *)
(* 0 when free, else the thread that holds it; objects counts the objects  *)
(* super().__new__ built; pc and local are each thread's position in       *)
(* __new__ and the object it built and has not assigned yet.               *)
(***************************************************************************)
Threads == 1..MaxThreads

lock_always_free(lock) == TRUE

\* Lock.acquire of "with cls._lock" goes on only when no thread holds the lock
lock_free(lock) == lock = 0

\* "if not cls._instance": an object is true, None is false
not_instance(instance) == instance = 0

\* a thread calls ThreadingSingleton()
SingletonBeginCall ==
    \E t \in Threads :
        /\ program = "singleton"
        /\ singleton.pc[t] = "idle"
        /\ singleton' = [singleton EXCEPT !.pc[t] = "with"]
        /\ UNCHANGED calls

\* with cls._lock: (enter)
SingletonAcquireCall ==
    \E t \in Threads :
        /\ singleton.pc[t] = "with"
        /\ lock_free(singleton.lock)
        /\ singleton' = [singleton EXCEPT !.lock = t, !.pc[t] = "if"]
        /\ UNCHANGED calls

\* if not cls._instance:
SingletonCheckCall ==
    \E t \in Threads :
        /\ singleton.pc[t] = "if"
        /\ singleton' = [singleton EXCEPT
                            !.pc[t] = IF not_instance(singleton.instance)
                                      THEN "new" ELSE "exit"]
        /\ UNCHANGED calls

\* super().__new__(cls)
SingletonNewCall ==
    \E t \in Threads :
        /\ singleton.pc[t] = "new"
        /\ singleton' = [singleton EXCEPT !.objects = @ + 1,
                                          !.local[t] = singleton.objects + 1,
                                          !.pc[t] = "assign"]
        /\ UNCHANGED calls

\* cls._instance = (the new object)
SingletonAssignCall ==
    \E t \in Threads :
        /\ singleton.pc[t] = "assign"
        /\ singleton' = [singleton EXCEPT !.instance = singleton.local[t],
                                          !.local[t] = 0,
                                          !.pc[t] = "exit"]
        /\ UNCHANGED calls

\* with cls._lock: (exit)
SingletonReleaseCall ==
    \E t \in Threads :
        /\ singleton.pc[t] = "exit"
        /\ singleton' = [singleton EXCEPT !.lock = 0, !.pc[t] = "return"]
        /\ UNCHANGED calls

\* return cls._instance; the log keeps the thread (cmd) and the object (snap)
SingletonReturnCall ==
    \E t \in Threads :
        /\ singleton.pc[t] = "return"
        /\ singleton' = [singleton EXCEPT !.pc[t] = "idle"]
        /\ calls' = Append(calls, Call("ThreadingSingleton", FALSE, 0, 0,
                                       singleton.instance, t, FALSE))

(***************************************************************************)
(* The objects of the smaller examples after construction.                 *)
(***************************************************************************)
OthersConstructed ==
    /\ ticket = "NewState"
    /\ inventory = [observers |-> <<>>, products |-> StockedProducts]
    /\ subjects = [observers |-> <<>>, state |-> [sub \in Subjects |-> NoState]]
    /\ singleton = [instance |-> 0, lock |-> 0, objects |-> 0,
                    pc |-> [t \in Threads |-> "idle"],
                    local |-> [t \in Threads |-> 0]]

(***************************************************************************)
(* Specification.                                                          *)
(***************************************************************************)
Init ==
    /\ program \in {"memento", "command"}
    /\ state \in (IF program = "memento" THEN InitialStates ELSE {None})
    /\ history = <<>>
    /\ restored = <<>>
    /\ created = 0
    /\ text = <<>>
    /\ clipboard = <<>>
    /\ commands = <<>>
    /\ app_history = <<>>
    /\ calls = <<>>
    /\ undoing = Idle
    /\ OthersConstructed

\* any client: every call in every order, MaxCalls calls at most
Backup == Len(calls) < MaxCalls /\ BackupCall

DoSomething == Len(calls) < MaxCalls /\ DoSomethingCall

Undo == Len(calls) < MaxCalls /\ UndoCall

Redo == Len(calls) < MaxCalls /\ RedoCall

ExecuteNew == Len(calls) < MaxCalls /\ ExecuteNewCall

ExecuteAgain == Len(calls) < MaxCalls /\ ExecuteAgainCall

AppUndo == Len(calls) < MaxCalls /\ AppUndoCall

Next ==
    \/ Backup
    \/ DoSomething
    \/ Undo
    \/ Redo
    \/ ExecuteNew
    \/ ExecuteAgain
    \/ AppUndo

Spec == Init /\ [][Next]_vars

(***************************************************************************)
(* The client of memento's __main__: a backup before each mutation, then   *)
(* undo calls, here for every number of mutations up to MaxMutations and   *)
(* never more undo calls than mutations.                                   *)
(***************************************************************************)
\* the calls c are backups that succeeded, each but perhaps the last followed
\* by a mutation
Recording(c) ==
    \A i \in 1..Len(c) :
        /\ c[i].op = (IF i % 2 = 1 THEN "backup" ELSE "do_something")
        /\ ~c[i].raised

\* the calls so far are N times (a backup that succeeds, a mutation) and then
\* k times undo
RecordedRun(N, k) ==
    /\ program = "memento"
    /\ Len(calls) = 2 * N + k
    /\ Recording(SubSeq(calls, 1, 2 * N))
    /\ \A j \in 1..k : calls[2 * N + j].op = "undo"

RunBackup ==
    /\ Recording(calls)
    /\ Len(calls) % 2 = 0
    /\ Len(calls) < 2 * MaxMutations
    /\ BackupCall

RunDoSomething ==
    /\ Recording(calls)
    /\ Len(calls) % 2 = 1
    /\ DoSomethingCall

RunUndo ==
    /\ \E N \in 1..MaxMutations : \E k \in 0..(N - 1) : RecordedRun(N, k)
    /\ UndoCall

RecordedRunInit == Init /\ program = "memento"

RecordedRunNext == RunBackup \/ RunDoSomething \/ RunUndo

RecordedRunSpec == RecordedRunInit /\ [][RecordedRunNext]_vars

(***************************************************************************)
(* Any client of the memento example, with the history display.            *)
(***************************************************************************)
MementoInit == Init /\ program = "memento"

ShowHistory == Len(calls) < MaxCalls /\ ShowHistoryCall

MementoNext == Backup \/ DoSomething \/ Undo \/ Redo \/ ShowHistory

MementoSpec == MementoInit /\ [][MementoNext]_vars

(***************************************************************************)
(* Any client of the memento example, with an Originator whose restore may *)
(* raise.                                                                  *)
(***************************************************************************)
UndoRestoreRaises == Len(calls) < MaxCalls /\ UndoRestoreRaisesCall

FaultNext == Backup \/ DoSomething \/ Undo \/ Redo \/ UndoRestoreRaises

FaultSpec == MementoInit /\ [][FaultNext]_vars

(***************************************************************************)
(* Two threads on one Caretaker, without a lock.  One calls undo and redo,  *)
(* and its undo runs statement by statement; the other calls backup and    *)
(* do_something at any moment.                                             *)
(***************************************************************************)
UndoPop == Len(calls) < MaxCalls /\ UndoPopCall

UndoAssign == Len(calls) < MaxCalls /\ UndoAssignCall

UndoAppend == Len(calls) < MaxCalls /\ UndoAppendCall

RedoBetweenUndos == undoing = Idle /\ Redo

ConcurrentNext ==
    \/ Backup
    \/ DoSomething
    \/ UndoPop
    \/ UndoAssign
    \/ UndoAppend
    \/ RedoBetweenUndos

ConcurrentSpec == MementoInit /\ [][ConcurrentNext]_vars

(***************************************************************************)
(* A client of the command example that builds command objects itself,     *)
(* hands them to execute_command in any order and any number of times,     *)
(* calls Application.undo, and calls undo() on a command object.           *)
(***************************************************************************)
CommandInit == Init /\ program = "command"

Construct == Len(calls) < MaxCalls /\ ConstructCall

CommandUndo == Len(calls) < MaxCalls /\ CommandUndoCall

CommandClientNext == Construct \/ ExecuteAgain \/ AppUndo \/ CommandUndo

CommandClientSpec == CommandInit /\ [][CommandClientNext]_vars

(***************************************************************************)
(* The client of the delta strategy's LIFO property: it may type a text    *)
(* into the editor first, then runs fresh commands through execute_command, *)
(* at most MaxCommands of them, then calls Application.undo once for every *)
(* command the history holds at that moment.                               *)
(***************************************************************************)
\* the k-th call is one of the run's execute_command calls or the typing
Executing(k) == calls[k].op \in {"execute_command", "Editor.text"}

\* the number of calls before the first Application.undo
Executions == Cardinality({k \in 1..Len(calls) : Executing(k)})

\* CommandHistory.history after the first k calls, by the log: a command whose
\* execute returned True was pushed, an UndoCommand and an undo popped
RECURSIVE Recorded(_)
Recorded(k) ==
    IF k = 0 THEN <<>>
    ELSE LET c == calls[k]
             prev == Recorded(k - 1)
         IN  IF c.op = "execute_command" /\ c.ret THEN Append(prev, c.cmd)
             ELSE IF c.op = "undo" \/ (c.op = "execute_command"
                                         /\ commands[c.cmd].kind = "Undo")
                  THEN (IF prev = <<>> THEN prev ELSE Front(prev))
             ELSE prev

FreshTypeText ==
    /\ calls = <<>>
    /\ TypeTextCall

FreshExecute ==
    /\ \A k \in 1..Len(calls) : Executing(k)
    /\ Len(commands) < MaxCommands
    /\ ExecuteNewCall

FreshUndo ==
    /\ Len(calls) - Executions < Len(Recorded(Executions))
    /\ AppUndoCall

FreshRunNext == FreshTypeText \/ FreshExecute \/ FreshUndo

FreshRunSpec == CommandInit /\ [][FreshRunNext]_vars

(***************************************************************************)
(* Any client of one Ticket.                                               *)
(***************************************************************************)
\* the objects of the memento and command examples, never touched by the
\* smaller examples
MainUntouched ==
    /\ state = None
    /\ history = <<>>
    /\ restored = <<>>
    /\ created = 0
    /\ text = <<>>
    /\ clipboard = <<>>
    /\ commands = <<>>
    /\ app_history = <<>>
    /\ calls = <<>>
    /\ undoing = Idle

TicketInit == program = "ticket" /\ MainUntouched /\ OthersConstructed

TicketAssign == Len(calls) < MaxCalls /\ TicketAssignCall

TicketResolve == Len(calls) < MaxCalls /\ TicketResolveCall

TicketClose == Len(calls) < MaxCalls /\ TicketCloseCall

TicketNext == TicketAssign \/ TicketResolve \/ TicketClose

TicketSpec == TicketInit /\ [][TicketNext]_vars

(***************************************************************************)
(* Any client of one Inventory.                                            *)
(***************************************************************************)
InventoryInit == program = "inventory" /\ MainUntouched /\ OthersConstructed

Attach == Len(calls) < MaxInventoryCalls /\ AttachCall

Detach == Len(calls) < MaxInventoryCalls /\ DetachCall

UpdateStock == Len(calls) < MaxInventoryCalls /\ UpdateStockCall

InventoryNext == Attach \/ Detach \/ UpdateStock

InventorySpec == InventoryInit /\ [][InventoryNext]_vars

(***************************************************************************)
(* Any client of two ConcreteSubject instances and two observers.          *)
(***************************************************************************)
SubjectInit == program = "subject" /\ MainUntouched /\ OthersConstructed

SubjectAttach == Len(calls) < MaxSubjectCalls /\ SubjectAttachCall

SubjectDetach == Len(calls) < MaxSubjectCalls /\ SubjectDetachCall

SubjectNotify == Len(calls) < MaxSubjectCalls /\ SubjectNotifyCall

SomeBusinessLogic == Len(calls) < MaxSubjectCalls /\ SomeBusinessLogicCall

SubjectNext ==
    SubjectAttach \/ SubjectDetach \/ SubjectNotify \/ SomeBusinessLogic

SubjectSpec == SubjectInit /\ [][SubjectNext]_vars

(***************************************************************************)
(* Threads that call ThreadingSingleton() at any moment, scheduled in any  *)
(* order, MaxSingletonCalls calls in all.                                  *)
(***************************************************************************)
SingletonInit == program = "singleton" /\ MainUntouched /\ OthersConstructed

SingletonFrame ==
    UNCHANGED <<program, mementoVars, commandVars, undoing,
                ticket, inventory, subjects>>

\* the threads inside a call
Calling == {t \in Threads : singleton.pc[t] # "idle"}

SingletonBegin ==
    /\ Len(calls) + Cardinality(Calling) < MaxSingletonCalls
    /\ SingletonBeginCall
    /\ SingletonFrame

SingletonAcquire == SingletonAcquireCall /\ SingletonFrame

SingletonCheck == SingletonCheckCall /\ SingletonFrame

SingletonNew == SingletonNewCall /\ SingletonFrame

SingletonAssign == SingletonAssignCall /\ SingletonFrame

SingletonRelease == SingletonReleaseCall /\ SingletonFrame

SingletonReturn == SingletonReturnCall /\ SingletonFrame

SingletonNext ==
    \/ SingletonBegin
    \/ SingletonAcquire
    \/ SingletonCheck
    \/ SingletonNew
    \/ SingletonAssign
    \/ SingletonRelease
    \/ SingletonReturn

SingletonSpec == SingletonInit /\ [][SingletonNext]_vars

(***************************************************************************)
(* Properties.                                                             *)
(***************************************************************************)
\* the step is a call of op
Step(op) == Len(calls') = Len(calls) + 1 /\ Last(calls').op = op

\* C1: after N recorded mutations m1..mN (a successful backup before each) on a
\* new Caretaker, the k-th of the following undo calls leaves the Originator in
\* the state it had before m(N-k+1), and the N-th leaves the history empty.
C1_LifoUndoOrder ==
    \A N \in 1..MaxMutations : \A k \in 1..N :
        RecordedRun(N, k) =>
            /\ state = calls[2 * (N - k + 1)].pre
            /\ (k = N => history = <<>> /\ state = calls[2].pre)

\* three recorded mutations from three different states, all undone
C1_Witness ==
    /\ RecordedRun(3, 3)
    /\ Cardinality({calls[2].pre, calls[4].pre, calls[6].pre}) = 3
    /\ calls[7].post = calls[6].pre
    /\ calls[8].post = calls[4].pre
    /\ state = calls[2].pre
    /\ history = <<>>

\* the last four calls are a successful backup, a mutation, undo, redo
UndoRedoOfOneMutation ==
    /\ program = "memento"
    /\ Len(calls) >= 4
    /\ LET L == Len(calls)
       IN  /\ calls[L - 3].op = "backup" /\ ~calls[L - 3].raised
           /\ calls[L - 2].op = "do_something"
           /\ calls[L - 1].op = "undo"
           /\ calls[L].op = "redo"

\* C2: after a recorded mutation m, undo and then redo, the Originator's state
\* equals the state m left.
C2_RedoRoundTrip ==
    UndoRedoOfOneMutation => state = calls[Len(calls) - 2].post

\* C3: right after a successful Caretaker.backup() the redo list
\* Originator.restored is empty.
C3_BackupClearsRedo ==
    (/\ program = "memento"
     /\ Len(calls) > 0
     /\ Last(calls).op = "backup"
     /\ ~Last(calls).raised) => restored = <<>>

\* the step is execute_command of a command whose execute() returned False
ExecuteReturnedFalse == Step("execute_command") /\ ~Last(calls').ret

\* C4 as claimed: execute_command of a command whose execute() returns False
\* leaves the command history as it was.
C4_FalseLeavesHistory ==
    [][ExecuteReturnedFalse => app_history' = app_history]_vars

\* C4 as amended: a command whose execute() returns False is a CopyCommand or
\* an UndoCommand and is not pushed; after a CopyCommand the history is as it
\* was, after an UndoCommand it is the history without its top entry (as it
\* was when it was empty).
C4_FalseNeverPushes ==
    [][ExecuteReturnedFalse =>
          LET kind == commands'[Last(calls').cmd].kind
          IN  /\ kind \in {"Copy", "Undo"}
              /\ kind = "Copy" => app_history' = app_history
              /\ kind = "Undo" =>
                    app_history' = IF app_history = <<>> THEN <<>>
                                   ELSE Front(app_history)]_vars

\* an UndoCommand was run on a non-empty history: it changed the text back and
\* took the top entry off
C4_Witness ==
    /\ program = "command"
    /\ Len(calls) >= 3
    /\ Last(calls).op = "execute_command"
    /\ commands[Last(calls).cmd].kind = "Undo"
    /\ ~Last(calls).ret
    /\ Last(calls).pre # Last(calls).post
    /\ Len(app_history) >= 1

\* C5: undo on an empty history and redo on an empty redo list (Caretaker), and
\* undo on an empty command history (Application.undo, directly or by an
\* UndoCommand), do not raise and change neither the subject nor a stack.
C5_EmptyStackNoOp ==
    [][/\ (program = "memento" /\ Step("undo") /\ history = <<>>) =>
             /\ ~Last(calls').raised
             /\ UNCHANGED <<state, history, restored>>
       /\ (program = "memento" /\ Step("redo") /\ restored = <<>>) =>
             /\ ~Last(calls').raised
             /\ UNCHANGED <<state, history, restored>>
       /\ (program = "command" /\ Step("undo") /\ app_history = <<>>) =>
             /\ ~Last(calls').raised
             /\ UNCHANGED <<text, app_history, clipboard, commands>>
       /\ (/\ program = "command"
           /\ Step("execute_command")
           /\ commands'[Last(calls').cmd].kind = "Undo"
           /\ app_history = <<>>) =>
             /\ ~Last(calls').raised
             /\ UNCHANGED <<text, app_history, clipboard>>]_vars

\* undo, redo, undo, redo on a Caretaker that never held a snapshot
C5_Witness ==
    /\ program = "memento"
    /\ Len(calls) = 4
    /\ calls[1].op = "undo" /\ calls[2].op = "redo"
    /\ calls[3].op = "undo" /\ calls[4].op = "redo"
    /\ history = <<>> /\ restored = <<>>
    /\ state = <<"X">>

\* C6: execute() of a command returns True exactly when it changed the editor
\* text, and a command that did not change the text is not on top of the
\* history after execute_command.
C6_ExecuteReturnsChanged ==
    (/\ program = "command"
     /\ Len(calls) > 0
     /\ Last(calls).op = "execute_command") =>
        /\ Last(calls).ret <=> (Last(calls).pre # Last(calls).post)
        /\ Last(calls).pre = Last(calls).post =>
              (app_history = <<>> \/ Last(app_history) # Last(calls).cmd)

\* C7: the Caretaker's history, bottom to top, holds the snapshots in the order
\* of their capture.
C7_HistoryChronological ==
    \A i \in 1..Len(history) : \A j \in 1..Len(history) :
        i < j => history[i].id < history[j].id

\* the redo stack that invariants I2 and I3 give after the first k calls: a
\* recorded mutation empties it, an undo pushes the entry it popped, a redo
\* pops; bottom first, by snapshot id
RECURSIVE UndoneSinceLastBackup(_)
UndoneSinceLastBackup(k) ==
    IF k = 0 THEN <<>>
    ELSE LET c == calls[k]
             prev == UndoneSinceLastBackup(k - 1)
         IN  IF c.op = "backup" /\ ~c.raised THEN <<>>
             ELSE IF c.op = "undo" /\ c.snap # 0 THEN Append(prev, c.snap)
             ELSE IF c.op = "redo" /\ c.snap # 0 THEN Front(prev)
             ELSE prev

\* C8: the redo list Originator.restored holds exactly the snapshots undone
\* since the last recorded mutation and not redone, the latest undone on top.
C8_RedoHoldsUndoneSinceLastBackup ==
    program = "memento" =>
        [i \in 1..Len(restored) |-> restored[i].id]
            = UndoneSinceLastBackup(Len(calls))

\* C9: Caretaker.undo() on a non-empty history takes exactly the top snapshot
\* off the history, sets the Originator's state to that snapshot's state and
\* puts that snapshot on top of the redo list; the entries below keep their
\* content and order, and no snapshot is built.
C9_UndoMovesTop ==
    [][(program = "memento" /\ Step("undo") /\ history # <<>>) =>
          /\ history' = Front(history)
          /\ state' = Last(history).state
          /\ restored' = Append(restored, Last(history))
          /\ created' = created
          /\ ~Last(calls').raised]_vars

\* an undo moved a snapshot onto a redo list that held one already and left a
\* snapshot on the history
C9_Witness ==
    /\ program = "memento"
    /\ Len(calls) > 0
    /\ Last(calls).op = "undo"
    /\ Last(calls).snap # 0
    /\ Len(restored) >= 2
    /\ Len(history) >= 1
    /\ Last(calls).pre # state
    /\ state = Last(restored).state

\* the step is Application.undo, called directly or by an UndoCommand, on a
\* non-empty history
UndoPops ==
    /\ program = "command"
    /\ app_history # <<>>
    /\ \/ Step("undo")
       \/ Step("execute_command") /\ commands'[Last(calls').cmd].kind = "Undo"

MostRecentlyRecorded(i) ==
    /\ calls[i].op = "execute_command"
    /\ calls[i].ret
    /\ \A j \in (i + 1)..Len(calls) :
          /\ calls[j].op = "execute_command"
          /\ commands[calls[j].cmd].kind = "Copy"

\* C11: undoing the most recently recorded command sets the editor text to the
\* value it had right before that command's execute ran.
C11_UndoRestoresTextBeforeExecute ==
    [][\A i \in 1..Len(calls) :
          (MostRecentlyRecorded(i) /\ UndoPops) => text' = calls[i].pre]_vars

\* a second Paste made "selected text" twice as long and the undo brought the
\* text before that Paste back
C11_Witness ==
    /\ program = "command"
    /\ Len(calls) >= 4
    /\ LET L == Len(calls)
       IN  /\ calls[L].op = "undo"
           /\ calls[L - 1].op = "execute_command"
           /\ commands[calls[L - 1].cmd].kind = "Paste"
           /\ calls[L - 1].pre = SelectedText
           /\ calls[L - 1].post = SelectedText \o SelectedText
           /\ text = SelectedText

\* execute() of the command object c was called
Executed(c) ==
    \E i \in 1..Len(calls) : calls[i].op = "execute_command" /\ calls[i].cmd = c

\* C12: a command's backup is not None exactly when the command is a Cut or a
\* Paste and its execute has run; Copy and Undo commands and commands that
\* never ran have backup None.
C12_BackupIffMutatingAndExecuted ==
    \A c \in 1..Len(commands) :
        (commands[c].backup # None) <=>
            (commands[c].kind \in {"Cut", "Paste"} /\ Executed(c))

\* C13: undo() of a command whose backup is None (it never ran, or it is a Copy
\* or an Undo command) raises and leaves the editor text as it was.
C13_UndoWithoutBackupRaises ==
    [][(/\ program = "command"
        /\ Step("Command.undo")
        /\ commands[Last(calls').cmd].backup = None) =>
          /\ Last(calls').raised
          /\ text' = text]_vars

\* C14: a backup while the Originator's state is None raises to the caller
\* (Originator.save fails and Caretaker.backup does not catch), and the
\* history, the redo list and the state stay as they were.
C14_SaveFailsOnNoneState ==
    [][(program = "memento" /\ Step("backup") /\ state = None) =>
          /\ Last(calls').raised
          /\ history' = history
          /\ restored' = restored
          /\ state' = state
          /\ created' = created]_vars

\* a backup on the None state failed, and failed again after an undo
C14_Witness ==
    /\ program = "memento"
    /\ Len(calls) = 3
    /\ calls[1].op = "backup" /\ calls[1].raised
    /\ calls[2].op = "undo"
    /\ calls[3].op = "backup" /\ calls[3].raised
    /\ calls[3].pre = None
    /\ history = <<>>

\* how many entries of the list l are the snapshot with identity n
Holds(l, n) == Cardinality({i \in 1..Len(l) : l[i].id = n})

SuccessfulBackups ==
    Cardinality({i \in 1..Len(calls) : calls[i].op = "backup" /\ ~calls[i].raised})

\* C16: every snapshot a backup created is in exactly one of history and
\* restored, the two lengths add up to the number of successful backups, and a
\* snapshot goes from history to restored only in undo and from restored to
\* history only in redo.
C16_EverySnapshotOnOneStack ==
    /\ [](program = "memento" =>
            /\ created = SuccessfulBackups
            /\ Len(history) + Len(restored) = SuccessfulBackups
            /\ \A n \in 1..created : Holds(history, n) + Holds(restored, n) = 1)
    /\ [][\A n \in 1..created :
            /\ (Holds(history, n) = 1 /\ Holds(restored', n) = 1) => Step("undo")
            /\ (Holds(restored, n) = 1 /\ Holds(history', n) = 1) => Step("redo")]_vars

\* snapshot 1 went to restored and back, snapshot 2 is on the redo list
C16_Witness ==
    /\ program = "memento"
    /\ Len(calls) = 6
    /\ calls[3].op = "undo" /\ calls[3].snap = 1
    /\ calls[4].op = "redo" /\ calls[4].snap = 1
    /\ calls[6].op = "undo" /\ calls[6].snap = 2
    /\ Holds(history, 1) = 1 /\ Holds(restored, 2) = 1

\* C17: every snapshot held by the Caretaker or the Originator has the state
\* and the date it was constructed with: the state the Originator had when
\* the backup that built it was called, and that construction's clock reading.
C17_SnapshotsNeverChange ==
    program = "memento" =>
        \A l \in {history, restored} : \A k \in 1..Len(l) :
            \E i \in 1..Len(calls) :
                /\ calls[i].op = "backup"
                /\ calls[i].snap = l[k].id
                /\ l[k].state = calls[i].pre
                /\ l[k].date = Prefix(now(l[k].id), 19)

\* the Originator was restored from a snapshot and mutated afterwards
C17_Witness ==
    /\ program = "memento"
    /\ Len(calls) = 6
    /\ calls[4].op = "undo" /\ calls[4].snap = 2
    /\ calls[5].op = "do_something"
    /\ calls[6].op = "show_history"
    /\ Len(restored) = 1
    /\ Last(restored).state = calls[4].post
    /\ Last(restored).state # state
    /\ Last(history).state # Last(restored).state

\* C18: show_history changes neither the history nor the redo list nor the
\* Originator's state, and it does not raise.
C18_ShowHistoryReadOnly ==
    [][Step("show_history") =>
          /\ history' = history
          /\ restored' = restored
          /\ state' = state
          /\ ~Last(calls').raised]_vars

\* show_history ran with entries on both lists
C18_Witness ==
    /\ program = "memento"
    /\ Len(calls) > 0
    /\ Last(calls).op = "show_history"
    /\ Len(history) = 2
    /\ Len(restored) = 1
    /\ Len(listing(history)) = 2

\* C15: when Originator.restore raises during Caretaker.undo, the call raises
\* to its caller and the memento being undone is still on the history or on
\* the redo list.
C15_RestoreFailureReachesCaller ==
    [][Step("undo, restore raises") =>
          /\ Last(calls').raised
          /\ Holds(history', Last(history).id) + Holds(restored', Last(history).id) = 1]_vars

\* the history of the run in which every do_something drew the content s:
\* the same snapshots with the same dates, holding s
WithState(h, s) == [i \in 1..Len(h) |-> [h[i] EXCEPT !.state = s]]

\* C19: the listing of show_history is the same for a history that differs
\* only in the captured state contents (same snapshots, same dates).
C19_ListingIndependentOfState ==
    (/\ program = "memento"
     /\ \A i \in 1..Len(history) : history[i].state \in RandomStrings) =>
        \A s \in RandomStrings : listing(WithState(history, s)) = listing(history)

\* invariants I1 and I2 together: the history bottom to top, followed by the
\* redo list top to bottom, holds the snapshots in the order of their capture
Chronological ==
    LET ids == [i \in 1..Len(history) |-> history[i].id]
                   \o [i \in 1..Len(restored) |-> restored[Len(restored) + 1 - i].id]
    IN  \A i \in 1..Len(ids) : \A j \in 1..Len(ids) : i < j => ids[i] < ids[j]

\* the k-th call is a backup that pushed a snapshot
Pushed(k) == calls[k].op = "backup" /\ ~calls[k].raised

\* the k-th call ran between the pop and the append of an undo
InsideUndo(k) ==
    \E i \in 1..(k - 1) :
        /\ calls[i].op = "undo: pop"
        /\ \A j \in (i + 1)..(k - 1) : calls[j].op # "undo: append"

\* the length of the redo list after the first k calls
RedoLength(k) ==
    Cardinality({i \in 1..k : calls[i].op = "undo: append"})
        - Cardinality({i \in 1..k : calls[i].op = "redo" /\ calls[i].snap # 0})

\* C20: an undo that completes after a backup ran between its pop and its
\* append leaves a state that violates I1/I2 (the redo list holds a snapshot
\* older than one on the history); as long as no backup ran inside an undo,
\* nor over a non-empty redo list (C3), I1/I2 hold.
C20_BackupInsideUndoBreaksOrder ==
    /\ []((\A k \in 1..Len(calls) :
              Pushed(k) => (~InsideUndo(k) /\ RedoLength(k) = 0)) => Chronological)
    /\ [][(/\ Step("undo: append")
           /\ \E k \in 1..Len(calls) : Pushed(k) /\ InsideUndo(k)
                 /\ \A j \in k..Len(calls) : calls[j].op # "undo: append")
              => ~Chronological']_vars

\* snapshot 1 popped, snapshot 2 pushed by the other thread while the redo list
\* was empty, then snapshot 1 appended to the redo list
C20_Witness ==
    /\ program = "memento"
    /\ Len(calls) = 5
    /\ calls[1].op = "backup" /\ calls[1].snap = 1
    /\ calls[2].op = "undo: pop" /\ calls[2].snap = 1
    /\ calls[3].op = "backup" /\ calls[3].snap = 2
    /\ calls[4].op = "undo: assign"
    /\ calls[5].op = "undo: append"
    /\ RedoLength(3) = 0
    /\ undoing = Idle
    /\ Len(history) = 1 /\ history[1].id = 2
    /\ Len(restored) = 1 /\ restored[1].id = 1
    /\ ~Chronological

\* C21: Caretaker.redo() on a non-empty redo list moves the top entry of the
\* redo list onto the history and leaves Originator._state as it was.
C21_RedoKeepsState ==
    [][(program = "memento" /\ Step("redo") /\ restored # <<>>) =>
          /\ state' = state
          /\ history' = Append(history, Last(restored))
          /\ restored' = Front(restored)
          /\ ~Last(calls').raised]_vars

\* a redo of a snapshot whose state is not the Originator's: backup, mutation,
\* undo, mutation, redo
C21_Witness ==
    /\ program = "memento"
    /\ Len(calls) = 5
    /\ calls[3].op = "undo" /\ calls[3].snap = 1
    /\ calls[4].op = "do_something"
    /\ calls[5].op = "redo" /\ calls[5].snap = 1
    /\ history = <<Snapshot(calls[1].pre, 1)>>
    /\ restored = <<>>
    /\ state = calls[4].post
    /\ state # history[1].state

\* C25: undo; redo; undo gives the state, the history and the redo list of
\* the single undo: after an undo that popped a snapshot, every redo step
\* leads to a state from which undo leads back to where the redo started.
C25_UndoRedoUndoIsUndo ==
    [][(/\ program = "memento"
        /\ Step("redo")
        /\ Len(calls) > 0
        /\ Last(calls).op = "undo"
        /\ Last(calls).snap # 0) =>
          undo(state', history', restored', created')
              = Memento(state, history, restored, created, FALSE)]_vars

\* undo; redo; undo of snapshot 2 were called, with another snapshot below it
\* and a mutation since its capture
C25_Witness ==
    /\ program = "memento"
    /\ Len(calls) = 6
    /\ calls[1].op = "backup" /\ calls[2].op = "backup"
    /\ calls[3].op = "do_something"
    /\ calls[4].op = "undo" /\ calls[4].snap = 2
    /\ calls[5].op = "redo" /\ calls[5].snap = 2
    /\ calls[6].op = "undo" /\ calls[6].snap = 2
    /\ state = calls[4].post
    /\ state # calls[3].post
    /\ Len(history) = 1
    /\ restored = <<Snapshot(calls[2].pre, 2)>>

\* the call in which the command object c ran last
LastExecuted(c) ==
    CHOOSE i \in 1..Len(calls) :
        /\ calls[i].op = "execute_command" /\ calls[i].cmd = c
        /\ \A j \in (i + 1)..Len(calls) :
              ~(calls[j].op = "execute_command" /\ calls[j].cmd = c)

\* C23: every execute_command of a Cut or Paste instance pushes the instance
\* and overwrites its backup with the text held just before this execution,
\* and every undo that pops an instance sets the text to the value held just
\* before the instance's last execution.
C23_InstanceKeepsLastBackup ==
    /\ [][(/\ program = "command"
           /\ Step("execute_command")
           /\ commands'[Last(calls').cmd].kind \in {"Cut", "Paste"}) =>
             /\ app_history' = Append(app_history, Last(calls').cmd)
             /\ commands'[Last(calls').cmd].backup = text]_vars
    /\ [][UndoPops => text' = calls[LastExecuted(Last(app_history))].pre]_vars

\* one Paste instance ran on the empty text and again on the pasted text; both
\* undos of it gave the text held before its second run
C23_Witness ==
    /\ program = "command"
    /\ Len(calls) = 5
    /\ commands[calls[1].cmd].kind = "Copy"
    /\ commands[calls[2].cmd].kind = "Paste"
    /\ calls[2].pre = <<>>
    /\ calls[3].op = "execute_command" /\ calls[3].cmd = calls[2].cmd
    /\ calls[3].pre = SelectedText
    /\ calls[4].op = "undo" /\ calls[4].post = SelectedText
    /\ calls[5].op = "undo" /\ calls[5].post = SelectedText
    /\ text = SelectedText
    /\ app_history = <<>>

\* the step is Application.undo, called directly or by an UndoCommand
AnyUndo ==
    /\ program = "command"
    /\ \/ Step("undo")
       \/ Step("execute_command") /\ commands'[Last(calls').cmd].kind = "Undo"

\* C24: Application.undo leaves the clipboard and every command object's
\* backup unchanged; it changes nothing but the text and the history.
C24_UndoKeepsClipboard ==
    [][AnyUndo =>
          /\ clipboard' = clipboard
          /\ SubSeq(commands', 1, Len(commands)) = commands]_vars

\* a Cut as the first call set the empty clipboard and was undone: the text is
\* the one of before the Cut, the clipboard is still the one the Cut set
C24_Witness ==
    /\ program = "command"
    /\ Len(calls) = 2
    /\ commands[calls[1].cmd].kind = "Cut"
    /\ calls[1].ret
    /\ calls[2].op = "undo"
    /\ text = calls[1].pre
    /\ clipboard = SelectedText
    /\ app_history = <<>>

\* the text before the first command of the run
InitialText == IF calls[1].op = "Editor.text" THEN calls[1].post ELSE calls[1].pre

\* the call in which the fresh command object c ran
ExecutedAt(c) ==
    CHOOSE i \in 1..Len(calls) : calls[i].op = "execute_command" /\ calls[i].cmd = c

\* C22: after a run of fresh commands that left the commands R on the
\* history, the j-th of the following undo calls sets the text to the one held
\* before the j-th last command of R ran and leaves the commands below it on
\* the history; the last one gives the initial text and the empty history.
C22_DeltaLifo ==
    (program = "command" /\ Len(calls) > Executions) =>
        LET R == Recorded(Executions)
            j == Len(calls) - Executions
        IN  /\ j <= Len(R)
            /\ text = calls[ExecutedAt(R[Len(R) + 1 - j])].pre
            /\ app_history = SubSeq(R, 1, Len(R) - j)
            /\ j = Len(R) => (text = InitialText /\ app_history = <<>>)

\* on a typed text that holds the selection: Cut, Copy, Paste, Paste, three
\* different pre-command texts, and the three undo calls
C22_Witness ==
    /\ program = "command"
    /\ Len(calls) = 8
    /\ calls[1].op = "Editor.text"
    /\ commands[calls[2].cmd].kind = "Cut"
    /\ commands[calls[3].cmd].kind = "Copy"
    /\ commands[calls[4].cmd].kind = "Paste"
    /\ commands[calls[5].cmd].kind = "Paste"
    /\ Recorded(5) = <<1, 3, 4>>
    /\ calls[6].op = "undo" /\ calls[6].post = calls[5].pre
    /\ calls[7].op = "undo" /\ calls[7].post = calls[4].pre
    /\ calls[8].op = "undo" /\ calls[8].post = calls[2].pre
    /\ calls[5].pre # calls[4].pre /\ calls[4].pre # calls[2].pre
    /\ text = <<"a">> \o SelectedText \o <<"b">>
    /\ app_history = <<>>

\* C26: assign() takes a Ticket from NewState to AssignedState, resolve() from
\* AssignedState to ResolvedState, close() from ResolvedState to ClosedState;
\* an operation that is not valid in the current state leaves it unchanged,
\* and nothing changes a ClosedState.
C26_TicketTransitions ==
    [][program = "ticket" =>
          /\ Step("assign") =>
                ticket' = (IF ticket = "NewState" THEN "AssignedState" ELSE ticket)
          /\ Step("resolve") =>
                ticket' = (IF ticket = "AssignedState" THEN "ResolvedState" ELSE ticket)
          /\ Step("close") =>
                ticket' = (IF ticket = "ResolvedState" THEN "ClosedState" ELSE ticket)]_vars

\* the observer o is attached after the calls so far: an attach of o is not
\* followed by a detach of o
Attached(o) ==
    \E i \in 1..Len(calls) :
        /\ calls[i].op = "attach" /\ calls[i].cmd = o
        /\ \A j \in (i + 1)..Len(calls) :
              ~(calls[j].op = "detach" /\ calls[j].cmd = o /\ ~calls[j].raised)

\* the attachments outstanding after the first k calls, oldest first: a detach
\* takes back the oldest outstanding attachment of its observer
RECURSIVE Attachments(_)
Attachments(k) ==
    IF k = 0 THEN <<>>
    ELSE LET c == calls[k]
             prev == Attachments(k - 1)
         IN  IF c.op = "attach" THEN Append(prev, c.cmd)
             ELSE IF c.op = "detach" /\ ~c.raised THEN list_remove(prev, c.cmd).rest
             ELSE prev

\* no attach so far was of an observer that had an outstanding attachment
NeverAttachedTwice ==
    \A k \in 1..Len(calls) :
        calls[k].op = "attach" =>
            \A i \in 1..Len(Attachments(k - 1)) : Attachments(k - 1)[i] # calls[k].cmd

\* how many of the update calls upd went to the observer o
Notified(upd, o) == Cardinality({i \in 1..Len(upd) : upd[i].observer = o})

\* the step is an update_stock of a product the inventory holds
UpdatesStocked ==
    /\ program = "inventory"
    /\ Step("update_stock")
    /\ Last(calls').cmd \in DOMAIN inventory.products

\* C27 as claimed: update_stock stores the new level, and when it is below
\* the previous level every attached observer receives exactly one update and
\* no other observer receives any; otherwise nobody receives one.
C27_EachAttachedObserverOnce ==
    [][UpdatesStocked =>
          LET c == Last(calls')
          IN  /\ inventory'.products[c.cmd] = c.post
              /\ \A o \in Managers :
                    Notified(c.ret, o) =
                        (IF c.post < c.pre /\ Attached(o) THEN 1 ELSE 0)]_vars

\* C27 as amended: update_stock stores the new level, and when it is below the
\* previous level the observers receive one update per outstanding attachment,
\* in attachment order, with the product and the new level; otherwise nobody
\* receives one.  As long as no observer was attached while attached, that is
\* one update for every attached observer and none for the others.
C27_OneUpdatePerAttachment ==
    [][UpdatesStocked =>
          LET c == Last(calls')
              A == Attachments(Len(calls))
          IN  /\ inventory'.products[c.cmd] = c.post
              /\ inventory'.observers = inventory.observers
              /\ ~c.raised
              /\ c.ret = (IF c.post < c.pre
                          THEN [i \in 1..Len(A) |->
                                   [observer |-> A[i], product_name |-> c.cmd,
                                    new_stock |-> c.post]]
                          ELSE <<>>)
              /\ NeverAttachedTwice => \A o \in Managers :
                          Notified(c.ret, o) =
                              (IF c.post < c.pre /\ Attached(o) THEN 1 ELSE 0)]_vars

\* Alice, Bob and Alice again were attached, Alice was detached once, and a
\* lower level was stored: Bob and then Alice received the update
C27_Witness ==
    /\ program = "inventory"
    /\ Len(calls) = 5
    /\ calls[1].op = "attach" /\ calls[1].cmd = "Alice"
    /\ calls[2].op = "attach" /\ calls[2].cmd = "Bob"
    /\ calls[3].op = "attach" /\ calls[3].cmd = "Alice"
    /\ calls[4].op = "detach" /\ calls[4].cmd = "Alice"
    /\ calls[5].op = "update_stock" /\ calls[5].pre = 10 /\ calls[5].post = 5
    /\ Len(calls[5].ret) = 2
    /\ calls[5].ret[1].observer = "Bob"
    /\ calls[5].ret[2].observer = "Alice"
    /\ inventory.products["Apples"] = 5

\* C28: notify() and some_business_logic() of a ConcreteSubject call update
\* only on observers that were attached to that instance.
C28_NotifiedOnlyByOwnSubject ==
    [][(program = "subject" /\ (Step("notify") \/ Step("some_business_logic"))) =>
          LET c == Last(calls')
          IN  \A i \in 1..Len(c.ret) :
                 \E j \in 1..Len(calls) :
                    /\ calls[j].op = "attach"
                    /\ calls[j].cmd = c.cmd
                    /\ calls[j].snap = c.ret[i].observer]_vars

\* the threads inside the block of "with cls._lock"
InLock == {t \in Threads : singleton.pc[t] \in {"if", "new", "assign", "exit"}}

\* C29: at most one ThreadingSingleton object is ever built, every call
\* returns that object, and at most one thread at a time is inside the
\* check-and-create block.
C29_OneInstance ==
    program = "singleton" =>
        /\ singleton.objects <= 1
        /\ \A i \in 1..Len(calls) : calls[i].snap = 1
        /\ Cardinality(InLock) <= 1
        /\ \A t \in InLock : singleton.lock = t

\* one thread returned the object, a second one holds the lock and finds the
\* object there, a third one waits for the lock
C29_Witness ==
    /\ program = "singleton"
    /\ singleton.objects = 1
    /\ singleton.instance = 1
    /\ \E t1 \in Threads : \E t2 \in Threads : \E t3 \in Threads :
          /\ t1 # t2 /\ t2 # t3 /\ t1 # t3
          /\ \E i \in 1..Len(calls) : calls[i].cmd = t1 /\ calls[i].snap = 1
          /\ singleton.pc[t2] = "exit" /\ singleton.lock = t2
          /\ singleton.pc[t3] = "with"

=============================================================================
